---- MODULE Spec2Model ----
(***************************************************************************)
(* Model of myshell.c: the read-parse-dispatch loop of main(), the parse   *)
(* chain of execute_command() and the handlers do_cd, do_ls, do_cat,       *)
(* do_mkdir, do_rmdir, do_rm, do_pwd and do_stat, run against a small      *)
(* POSIX file system (a tree of directories and regular files).            *)
(*                                                                         *)
(* Strings are sequences of one-character strings, so that sscanf's        *)
(* literal/whitespace/%s matching is computed character by character.      *)
(* A path in the file system is a sequence of names; a name is a string.   *)
(***************************************************************************)
EXTENDS Naturals, Integers, Sequences, FiniteSets, TLC

\* ---------------------------------------------------------------- bounds
\* file system quota: number of nodes below the root; mkdir fails (ENOSPC)
\* once it is reached
MaxNodes == 3
\* descriptor table size left to the shell (RLIMIT_NOFILE minus stdin,
\* stdout, stderr); open/opendir fail (EMFILE) once it is reached
MaxFds == 1

\* ------------------------------------------------------ program constants
BUFFER_SIZE == 256
MAX_PATH_LENGTH == 256
MAX_FILENAME_LENGTH == 256
PATH_MAX == 4096
EXIT_SUCCESS == 0

\* ------------------------------------------------------------ characters
\* isspace() in the C locale (vertical tab has no TLA+ escape; it is not
\* among the input characters)
WS == {" ", "\t", "\n", "\f", "\r"}

V_cd == <<"c", "d">>
V_ls == <<"l", "s">>
V_cat == <<"c", "a", "t">>
V_stat == <<"s", "t", "a", "t">>
V_mkdir == <<"m", "k", "d", "i", "r">>
V_rmdir == <<"r", "m", "d", "i", "r">>
V_rm == <<"r", "m">>
V_pwd == <<"p", "w", "d">>
V_exit == <<"e", "x", "i", "t">>
V_foo == <<"f", "o", "o">>

N_a == <<"a">>
N_dir == <<"d", "i", "r">>
Dot == <<".">>
DotDot == <<".", ".">>
SP == <<" ">>

\* verbs whose handler needs an argument
ArgVerbs == {V_cat, V_stat, V_mkdir, V_rmdir, V_rm}
Verbs == ArgVerbs \cup {V_cd, V_ls, V_pwd, V_exit}
Words == Verbs \cup {V_foo}

\* argument tokens typed by the user
Args == {N_a, N_dir, DotDot}
\* a path of two components
P_aa == <<"a", "/", "a">>

\* the lines typed by the user, before the newline: the empty line, every
\* word alone, a word and an argument, a word and two further tokens, a
\* word with a name glued to it, and lines that start with a blank
Bodies ==
  {<<>>} \cup Words
  \cup {w \o SP \o x : w \in Verbs \ {V_pwd, V_exit}, x \in Args}
  \cup {w \o SP \o N_a : w \in {V_pwd, V_exit, V_foo}}
  \cup {w \o SP \o P_aa : w \in {V_cd, V_mkdir, V_rmdir}}
  \cup {w \o SP \o N_a \o SP \o N_dir : w \in {V_cd, V_mkdir, V_ls}}
  \cup {w \o N_a : w \in {V_cd, V_rm, V_cat, V_pwd}}
  \cup {SP \o V_exit, SP \o V_rm \o SP \o N_a}

\* what fgets() stores: the line and its newline, possibly after blanks
RawLines ==
  {b \o <<"\n">> : b \in Bodies}
  \cup {b \o <<" ", "\t", "\n">> : b \in {<<>>, V_exit, V_cd, V_rmdir}}

\* ------------------------------------------------------------ C strings
IsPrefix(p, s) == Len(p) <= Len(s) /\ SubSeq(s, 1, Len(p)) = p

RECURSIVE strip_trailing_whitespace(_)
\* On a line of whitespace only the loop of the source goes on to read
\* string[-1], the byte before the static buffer (out of bounds): whether
\* it stops there or clears more bytes below the array, the string left
\* in buffer is empty.
strip_trailing_whitespace(s) ==
  IF s # <<>> /\ s[Len(s)] \in WS
  THEN strip_trailing_whitespace(SubSeq(s, 1, Len(s) - 1))
  ELSE s

RECURSIVE SkipWs(_)
SkipWs(s) == IF s # <<>> /\ s[1] \in WS THEN SkipWs(Tail(s)) ELSE s

RECURSIVE TakeTok(_)
TakeTok(s) ==
  IF s = <<>> \/ s[1] \in WS THEN <<>> ELSE <<s[1]>> \o TakeTok(Tail(s))

\* length of the longest common prefix of a and b
RECURSIVE Common(_, _)
Common(a, b) ==
  IF a = <<>> \/ b = <<>> \/ a[1] # b[1] THEN 0
  ELSE 1 + Common(Tail(a), Tail(b))

\* sscanf(buf, "<lit> %s", out): the literal characters must match one by
\* one, the blank of the format skips any (also no) whitespace, %s skips
\* whitespace and stores the next run of non-whitespace characters.
\* n = 1 and tok = the token when a token is stored, n = -1 (EOF) when the
\* input ends before the conversion, n = 0 on a literal mismatch.
Sscanf(buf, lit) ==
  IF IsPrefix(lit, buf)
  THEN LET rest == SkipWs(SubSeq(buf, Len(lit) + 1, Len(buf)))
       IN IF rest = <<>> THEN [n |-> -1, tok |-> <<>>]
          ELSE [n |-> 1, tok |-> TakeTok(rest)]
  ELSE IF Common(lit, buf) = Len(buf) THEN [n |-> -1, tok |-> <<>>]
       ELSE [n |-> 0, tok |-> <<>>]

\* !strncmp(buf, word, BUFFER_SIZE)
StrEq(buf, word) == buf = word

\* ------------------------------------------------------------ file system
\* The file system is a function from the paths that exist (sequences of
\* names, <<>> the root) to nodes.
DirNode == [kind |-> "dir", data |-> <<>>]
FileNode(d) == [kind |-> "file", data |-> d]

Parent(p) == IF p = <<>> THEN <<>> ELSE SubSeq(p, 1, Len(p) - 1)
Children(f, p) == {q \in DOMAIN f : q # <<>> /\ Parent(q) = p}
NodeCount(f) == Cardinality(DOMAIN f) - 1

RECURSIVE TakeName(_)
TakeName(s) ==
  IF s = <<>> \/ s[1] = "/" THEN <<>> ELSE <<s[1]>> \o TakeName(Tail(s))

\* the components of a path string, empty components dropped
RECURSIVE Split(_)
Split(s) ==
  IF s = <<>> THEN <<>>
  ELSE IF s[1] = "/" THEN Split(Tail(s))
  ELSE LET c == TakeName(s)
       IN <<c>> \o Split(SubSeq(s, Len(c) + 1, Len(s)))

\* the kernel's path walk: every component but the last must be an
\* existing directory (else ENOENT / ENOTDIR); the result names the node
\* the path string denotes, which may not exist
RECURSIVE Walk(_, _, _)
Walk(f, cur, comps) ==
  IF comps = <<>> THEN [ok |-> TRUE, p |-> cur]
  ELSE IF cur \notin DOMAIN f \/ f[cur].kind # "dir"
  THEN [ok |-> FALSE, p |-> <<>>]
  ELSE LET c == Head(comps)
       IN IF c = Dot THEN Walk(f, cur, Tail(comps))
          ELSE IF c = DotDot THEN Walk(f, Parent(cur), Tail(comps))
          ELSE Walk(f, cur \o <<c>>, Tail(comps))

Namei(f, wd, path) ==
  IF path = <<>> THEN [ok |-> FALSE, p |-> <<>>]
  ELSE Walk(f, IF path[1] = "/" THEN <<>> ELSE wd, Split(path))

Exists(f, wd, path) == Namei(f, wd, path).ok /\ Namei(f, wd, path).p \in DOMAIN f
IsDir(f, wd, path) == Exists(f, wd, path) /\ f[Namei(f, wd, path).p].kind = "dir"
IsFile(f, wd, path) == Exists(f, wd, path) /\ f[Namei(f, wd, path).p].kind = "file"
LastComp(path) == LET c == Split(path) IN IF c = <<>> THEN <<>> ELSE c[Len(c)]

Without(f, q) == [p \in (DOMAIN f) \ {q} |-> f[p]]
With(f, q, node) == [p \in (DOMAIN f) \cup {q} |-> IF p = q THEN node ELSE f[p]]

\* chdir(path): the new working directory, the old one on failure
ChdirOk(f, wd, path) == IsDir(f, wd, path)
\* a chdir applied component by component, which stays where the walk
\* stopped when the last component is missing
ChdirPartial(f, wd, path) ==
  IF ChdirOk(f, wd, path) THEN Namei(f, wd, path).p
  ELSE IF Namei(f, wd, path).ok THEN Parent(Namei(f, wd, path).p)
  ELSE wd
Chdir(f, wd, path) == IF ChdirOk(f, wd, path) THEN Namei(f, wd, path).p ELSE wd

\* mkdir(path, mode)
MkdirOk(f, wd, path) ==
  /\ Namei(f, wd, path).ok
  /\ Namei(f, wd, path).p \notin DOMAIN f
  /\ NodeCount(f) < MaxNodes
SysMkdir(f, wd, path) ==
  IF MkdirOk(f, wd, path) THEN With(f, Namei(f, wd, path).p, DirNode) ELSE f

\* unlink(path): anything but a directory
UnlinkOk(f, wd, path) == IsFile(f, wd, path)
SysUnlink(f, wd, path) ==
  IF UnlinkOk(f, wd, path) THEN Without(f, Namei(f, wd, path).p) ELSE f

\* rmdir(path): an empty directory that is neither the root nor named
\* by a final "." or ".."
RmdirOk(f, wd, path) ==
  /\ IsDir(f, wd, path)
  /\ Namei(f, wd, path).p # <<>>
  /\ LastComp(path) \notin {Dot, DotDot}
  /\ Children(f, Namei(f, wd, path).p) = {}
\* a do_rmdir that calls unlink(), which refuses directories
SysRmdirAsUnlink(f, wd, path) == SysUnlink(f, wd, path)
SysRmdir(f, wd, path) ==
  IF RmdirOk(f, wd, path) THEN Without(f, Namei(f, wd, path).p) ELSE f

\* ------------------------------------------------------------- the parser
\* main(): the line goes to do_cd when sscanf stores a token after "cd" or
\* the line is exactly "cd"
MainIsCd(buf) == Sscanf(buf, V_cd).n = 1 \/ StrEq(buf, V_cd)

\* an exit test written like the cd test, with sscanf("exit %s") alone
MainIsExitSscanf(buf) == Sscanf(buf, V_exit).n = 1
\* main(): otherwise the process exits when the line is exactly "exit"
MainIsExit(buf) == StrEq(buf, V_exit)

\* main() and the if-chain of execute_command(): the handler the line is
\* dispatched to and the contents of filename it is called with
Dispatch(buf) ==
  IF MainIsCd(buf) THEN [h |-> "cd", arg |-> Sscanf(buf, V_cd).tok]
  ELSE IF MainIsExit(buf) THEN [h |-> "exit", arg |-> <<>>]
  ELSE IF Sscanf(buf, V_cat).n = 1 THEN [h |-> "cat", arg |-> Sscanf(buf, V_cat).tok]
  ELSE IF Sscanf(buf, V_stat).n = 1 THEN [h |-> "stat", arg |-> Sscanf(buf, V_stat).tok]
  ELSE IF Sscanf(buf, V_mkdir).n = 1 THEN [h |-> "mkdir", arg |-> Sscanf(buf, V_mkdir).tok]
  ELSE IF Sscanf(buf, V_rmdir).n = 1 THEN [h |-> "rmdir", arg |-> Sscanf(buf, V_rmdir).tok]
  ELSE IF Sscanf(buf, V_rm).n = 1 THEN [h |-> "rm", arg |-> Sscanf(buf, V_rm).tok]
  ELSE IF Sscanf(buf, V_ls).n = 1 THEN [h |-> "ls", arg |-> Sscanf(buf, V_ls).tok]
  ELSE IF StrEq(buf, V_ls) THEN [h |-> "ls", arg |-> Dot]
  ELSE IF StrEq(buf, V_pwd) THEN [h |-> "pwd", arg |-> <<>>]
  ELSE [h |-> "invalid", arg |-> <<>>]

\* ------------------------------------------------------------------ state
VARIABLES
  pc,        \* "prompt": top of the loop; "dispatch": a line is in buffer;
             \* "exited": exit() was called; "crashed": killed by a signal
  buffer,    \* static char buffer[BUFFER_SIZE], as a C string
  filename,  \* static char filename[MAX_FILENAME_LENGTH], as a C string
  fs,        \* the file system
  cwd,       \* the process working directory (a path of fs)
  nOpen,     \* descriptors the process holds open besides 0, 1 and 2
  eof,       \* stdin is at end of file
  status,    \* <<>> while running, <<s>> once exit(s) was called
  line,      \* the line of the current iteration, as dispatched
  handler,   \* the handler the current iteration called ("none" before)
  ret,       \* the value the handler / execute_command returned
  diag,      \* the streams of the diagnostic lines written this iteration
  lsenv,     \* what happened to the directory stream of this iteration's ls
  prev       \* the mkdir-then-rmdir history of the last two commands

vars == <<pc, buffer, filename, fs, cwd, nOpen, eof, status, line,
          handler, ret, diag, lsenv, prev>>

\* pw_dir of the invoking user
Home == <<"/", "a">>

\* the contents of the regular files
Hi == <<"h", "i">>

InitFs ==
  [p \in {<<>>, <<N_a>>, <<N_dir>>} |->
     IF p = <<N_dir>> THEN FileNode(Hi) ELSE DirNode]

RootOnly == [p \in {<<>>} |-> DirNode]
NoPrev == [stage |-> 0, tok |-> <<>>, fs |-> RootOnly, made |-> FALSE]
NoLs == [opened |-> FALSE, readErr |-> FALSE, closeErr |-> FALSE,
         nFail |-> 0, nLong |-> 0]

\* the value a caller sees when a non-void function falls off its end
Indeterminate == {-1, 0, 1}

Init ==
  /\ pc = "prompt"
  /\ buffer = <<>>
  /\ filename = <<>>
  /\ fs = InitFs
  /\ cwd \in {<<>>, <<N_a>>}
  /\ nOpen = 0
  /\ eof = FALSE
  /\ status = <<>>
  /\ line = <<>>
  /\ handler = "none"
  /\ ret = 0
  /\ diag = <<>>
  /\ lsenv = NoLs
  /\ prev = NoPrev

\* ---------------------------------------------------------------- main()
\* display_prompt(); fgets() stores a line; strip_trailing_whitespace();
\* bzero(filename)
ReadLine ==
  /\ pc = "prompt"
  /\ ~eof
  /\ \E raw \in RawLines :
       /\ Len(raw) < BUFFER_SIZE
       /\ buffer' = strip_trailing_whitespace(raw)
       /\ line' = strip_trailing_whitespace(raw)
  /\ filename' = <<>>
  /\ pc' = "dispatch"
  /\ handler' = "none"
  /\ ret' = 0
  /\ diag' = <<>>
  /\ lsenv' = NoLs
  /\ prev' = IF prev.stage = 1 THEN prev ELSE NoPrev
  /\ UNCHANGED <<fs, cwd, nOpen, eof, status>>

\* display_prompt(); fgets() returns 0 at end of input: the loop goes round
ReadEOF ==
  /\ pc = "prompt"
  /\ eof' = TRUE
  /\ UNCHANGED <<pc, buffer, filename, fs, cwd, nOpen, status, line,
                 handler, ret, diag, lsenv, prev>>

\* a handler returns to the loop
Return(h, r, d) ==
  /\ pc' = "prompt"
  /\ handler' = h
  /\ ret' = r
  /\ diag' = d

Err == <<"stderr">>
Out == <<"stdout">>

\* exit(EXIT_SUCCESS)
Exit ==
  /\ pc = "dispatch"
  /\ Dispatch(buffer).h = "exit"
  /\ pc' = "exited"
  /\ status' = <<EXIT_SUCCESS>>
  /\ UNCHANGED <<buffer, filename, fs, cwd, nOpen, eof, line, handler,
                 ret, diag, lsenv, prev>>

\* do_cd(filename)
do_cd ==
  /\ pc = "dispatch"
  /\ Dispatch(buffer).h = "cd"
  /\ LET arg == Dispatch(buffer).arg
         dirname == IF arg = <<>> THEN Home ELSE arg
     IN \* getpwuid(getuid()) returns NULL when the user has no entry or
        \* the lookup fails
        \E hasPw \in BOOLEAN :
          IF arg = <<>> /\ ~hasPw
          THEN \* p->pw_dir is read through the NULL pointer: SIGSEGV
               /\ pc' = "crashed"
               /\ handler' = "cd"
               /\ UNCHANGED <<filename, cwd, ret, diag>>
          ELSE /\ filename' = dirname
               /\ cwd' = Chdir(fs, cwd, dirname)
               /\ Return("cd", IF ChdirOk(fs, cwd, dirname) THEN 0 ELSE -1,
                         IF ChdirOk(fs, cwd, dirname) THEN <<>> ELSE Err)
  /\ prev' = NoPrev
  /\ UNCHANGED <<buffer, fs, nOpen, eof, status, line, lsenv>>

\* read(sourcefd, buffer, BUFFER_SIZE) of n <= BUFFER_SIZE bytes: they
\* replace the first n characters of the line held in buffer
ReadInto(buf, data) ==
  IF Len(data) <= Len(buf)
  THEN data \o SubSeq(buf, Len(data) + 1, Len(buf))
  ELSE data

\* do_cat(filename)
do_cat ==
  /\ pc = "dispatch"
  /\ Dispatch(buffer).h = "cat"
  /\ LET arg == Dispatch(buffer).arg
         openOk == Exists(fs, cwd, arg) /\ nOpen < MaxFds
     IN /\ filename' = arg
        /\ IF ~openOk
           THEN \* open() fails; close(-1) does nothing
                /\ Return("cat", -1, Err)
                /\ UNCHANGED <<buffer, nOpen>>
           ELSE \E ioErr, crash, closeErr \in BOOLEAN :
                  IF IsDir(fs, cwd, arg) \/ ioErr
                  THEN \* read() fails (EISDIR, EIO): return -1, no close()
                       /\ Return("cat", -1, Err)
                       /\ nOpen' = nOpen + 1
                       /\ UNCHANGED buffer
                  ELSE LET data == fs[Namei(fs, cwd, arg).p].data
                       IN IF data # <<>> /\ crash
                          THEN \* fwrite(buffer, BUFFER_SIZE, BUFFER_SIZE - 1,
                               \* stdout) reads 65280 bytes from the 256 of
                               \* buffer and runs off the mapped pages
                               /\ pc' = "crashed"
                               /\ handler' = "cat"
                               /\ buffer' = ReadInto(buffer, data)
                               /\ nOpen' = nOpen + 1
                               /\ UNCHANGED <<ret, diag>>
                          ELSE \* end of file, close(); the function ends
                               \* without a return statement
                               /\ \E r \in Indeterminate :
                                    Return("cat", r, IF closeErr THEN Err ELSE <<>>)
                               /\ buffer' = ReadInto(buffer, data)
                               /\ UNCHANGED nOpen
  /\ prev' = NoPrev
  /\ UNCHANGED <<fs, cwd, eof, status, line, lsenv>>

\* do_stat(filename)
do_stat ==
  /\ pc = "dispatch"
  /\ Dispatch(buffer).h = "stat"
  /\ LET arg == Dispatch(buffer).arg
     IN /\ filename' = arg
        /\ IF ~Exists(fs, cwd, arg)
           THEN Return("stat", -1, Out)
           ELSE \E r \in Indeterminate : Return("stat", r, <<>>)
  /\ prev' = NoPrev
  /\ UNCHANGED <<buffer, fs, cwd, nOpen, eof, status, line, lsenv>>

\* do_mkdir(filename)
do_mkdir ==
  /\ pc = "dispatch"
  /\ Dispatch(buffer).h = "mkdir"
  /\ LET arg == Dispatch(buffer).arg
     IN /\ filename' = arg
        /\ fs' = SysMkdir(fs, cwd, arg)
        /\ Return("mkdir", IF MkdirOk(fs, cwd, arg) THEN 0 ELSE -1,
                  IF MkdirOk(fs, cwd, arg) THEN <<>> ELSE Err)
        /\ prev' = IF Exists(fs, cwd, arg) THEN NoPrev
                   ELSE [stage |-> 1, tok |-> arg, fs |-> fs,
                         made |-> MkdirOk(fs, cwd, arg)]
  /\ UNCHANGED <<buffer, cwd, nOpen, eof, status, line, lsenv>>

\* do_rmdir(filename)
do_rmdir ==
  /\ pc = "dispatch"
  /\ Dispatch(buffer).h = "rmdir"
  /\ LET arg == Dispatch(buffer).arg
     IN /\ filename' = arg
        /\ fs' = SysRmdir(fs, cwd, arg)
        /\ Return("rmdir", IF RmdirOk(fs, cwd, arg) THEN 0 ELSE -1,
                  IF RmdirOk(fs, cwd, arg) THEN <<>> ELSE Err)
        /\ prev' = IF prev.stage = 1 /\ prev.tok = arg
                   THEN [prev EXCEPT !.stage = 2]
                   ELSE NoPrev
  /\ UNCHANGED <<buffer, cwd, nOpen, eof, status, line, lsenv>>

\* do_rm(filename)
do_rm ==
  /\ pc = "dispatch"
  /\ Dispatch(buffer).h = "rm"
  /\ LET arg == Dispatch(buffer).arg
     IN /\ filename' = arg
        /\ fs' = SysUnlink(fs, cwd, arg)
        /\ Return("rm", IF UnlinkOk(fs, cwd, arg) THEN 0 ELSE -1,
                  IF UnlinkOk(fs, cwd, arg) THEN <<>> ELSE Err)
  /\ prev' = NoPrev
  /\ UNCHANGED <<buffer, cwd, nOpen, eof, status, line, lsenv>>

\* the names readdir() returns for the directory at path p
Entries(f, p) == {Dot, DotDot} \cup {q[Len(q)] : q \in Children(f, p)}

\* snprintf(path, sizeof(path), "%s/%s", dir, name) >= sizeof(path)
TooLong(dir, name) == Len(dir) + 1 + Len(name) >= PATH_MAX

\* n diagnostic lines on stderr
RECURSIVE ErrLines(_)
ErrLines(n) == IF n = 0 THEN <<>> ELSE Err \o ErrLines(n - 1)

\* do_ls: the value returned after the loop, from what happened in it.
\* errno is 0 before the loop; a failing lstat() or readdir() sets it and
\* nothing sets it back.
LsErrno(nFail, readErr) == nFail > 0 \/ readErr
LsRet(nFail, readErr, closeErr) ==
  IF LsErrno(nFail, readErr) THEN -1 ELSE IF closeErr THEN -1 ELSE 0

\* do_ls(filename)
do_ls ==
  /\ pc = "dispatch"
  /\ Dispatch(buffer).h = "ls"
  /\ LET arg == Dispatch(buffer).arg
         dir == IF arg # <<>> THEN arg ELSE Dot
         openOk == IsDir(fs, cwd, dir) /\ nOpen < MaxFds
     IN /\ filename' = arg
        /\ IF ~openOk
           THEN /\ Return("ls", -1, Err)
                /\ lsenv' = NoLs
           ELSE LET all == Entries(fs, Namei(fs, cwd, dir).p)
                IN \E got \in SUBSET all, readErr, closeErr \in BOOLEAN :
                     \* readdir() stops early only on an error
                     /\ got # all => readErr
                     /\ \E failed \in SUBSET {e \in got : ~TooLong(dir, e)} :
                          LET nLong == Cardinality({e \in got : TooLong(dir, e)})
                              nFail == Cardinality(failed)
                              after == IF LsErrno(nFail, readErr) \/ closeErr
                                       THEN 1 ELSE 0
                          IN /\ Return("ls", LsRet(nFail, readErr, closeErr),
                                       ErrLines(nLong + nFail + after))
                             /\ lsenv' = [opened |-> TRUE, readErr |-> readErr,
                                          closeErr |-> closeErr,
                                          nFail |-> nFail, nLong |-> nLong]
  /\ prev' = NoPrev
  /\ UNCHANGED <<buffer, fs, cwd, nOpen, eof, status, line>>

\* the length of the absolute path string of a node
RECURSIVE PathLen(_)
PathLen(p) ==
  IF p = <<>> THEN 0 ELSE 1 + Len(Head(p)) + PathLen(Tail(p))

\* getcwd(current_dir, sizeof(current_dir)) != NULL: the directory is
\* still linked and its path and the terminating 0 fit the array
GetcwdOk(f, wd) ==
  /\ wd \in DOMAIN f
  /\ (IF wd = <<>> THEN 1 ELSE PathLen(wd)) < MAX_PATH_LENGTH

\* do_pwd()
do_pwd ==
  /\ pc = "dispatch"
  /\ Dispatch(buffer).h = "pwd"
  /\ Return("pwd", IF GetcwdOk(fs, cwd) THEN 0 ELSE -1,
            IF GetcwdOk(fs, cwd) THEN <<>> ELSE Err)
  /\ prev' = NoPrev
  /\ UNCHANGED <<buffer, filename, fs, cwd, nOpen, eof, status, line, lsenv>>

\* execute_command(): no pattern matched
Invalid ==
  /\ pc = "dispatch"
  /\ Dispatch(buffer).h = "invalid"
  /\ Return("invalid", -1, IF Len(buffer) # 0 THEN Err ELSE <<>>)
  /\ prev' = NoPrev
  /\ UNCHANGED <<buffer, filename, fs, cwd, nOpen, eof, status, line, lsenv>>

Next ==
  \/ ReadLine
  \/ ReadEOF
  \/ Exit
  \/ do_cd
  \/ do_cat
  \/ do_stat
  \/ do_mkdir
  \/ do_rmdir
  \/ do_rm
  \/ do_ls
  \/ do_pwd
  \/ Invalid

Spec == Init /\ [][Next]_vars

TypeOK ==
  /\ pc \in {"prompt", "dispatch", "exited", "crashed"}
  /\ cwd \in DOMAIN fs /\ fs[cwd].kind = "dir"
  /\ nOpen \in 0..MaxFds
  /\ NodeCount(fs) <= MaxNodes
  /\ ret \in Indeterminate
  /\ Len(buffer) < BUFFER_SIZE /\ Len(filename) < MAX_FILENAME_LENGTH

\* ------------------------------------------------------------- the claims
\* the whitespace-delimited tokens of a line
RECURSIVE Tokens(_)
Tokens(s) ==
  LET r == SkipWs(s)
  IN IF r = <<>> THEN <<>>
     ELSE <<TakeTok(r)>> \o Tokens(SubSeq(r, Len(TakeTok(r)) + 1, Len(r)))

FirstTok(s) == IF Tokens(s) = <<>> THEN <<>> ELSE Tokens(s)[1]

\* the line cut after its k-th token
RECURSIVE CutAfter(_, _)
CutAfter(s, k) ==
  IF k = 0 \/ s = <<>> THEN <<>>
  ELSE IF s[1] \in WS THEN <<s[1]>> \o CutAfter(Tail(s), k)
  ELSE LET t == TakeTok(s)
       IN t \o CutAfter(SubSeq(s, Len(t) + 1, Len(s)), k - 1)

\* the line cut after the tokens its verb uses
CutLine(s) ==
  IF FirstTok(s) \in {V_pwd, V_exit} THEN CutAfter(s, 1) ELSE CutAfter(s, 2)

\* C1: a line that is one of cat, stat, mkdir, rmdir, rm alone, with no
\* argument, returns -1 and leaves the file system as it was.
C1_MissingArgFails ==
  [][(pc = "dispatch" /\ buffer \in ArgVerbs)
       => (pc' = "prompt" /\ ret' = -1 /\ fs' = fs)]_vars

\* C2: a non-empty line whose first token is not one of the nine verbs
\* calls no handler, writes exactly one diagnostic line, and leaves the
\* working directory and the file system as they were.
C2_UnknownVerbRejected ==
  [][(pc = "dispatch" /\ buffer # <<>> /\ FirstTok(buffer) \notin Verbs)
       => (handler' = "invalid" /\ Len(diag') = 1 /\ cwd' = cwd /\ fs' = fs)]_vars

\* C3: every line is dispatched like the same line cut after the tokens
\* its verb uses (one token for pwd and exit, two for the others): the
\* same handler is called with the same argument.
C3_ExtraTokensIgnored ==
  pc = "dispatch" => Dispatch(buffer) = Dispatch(CutLine(buffer))

\* C4: every step that runs a line either returns to the top of the loop,
\* where the next prompt is displayed, or is the step of the line exit
\* and ends the process by exit().
C4_OnlyExitTerminates ==
  [][pc = "dispatch"
       => (pc' = "prompt" \/ (line = V_exit /\ pc' = "exited"))]_vars

\* C5: once the line read is exit, the iteration has ended the process
\* with status EXIT_SUCCESS and has called no handler, whatever the file
\* system, the working directory and the earlier commands.
C5_ExitTerminates ==
  (line = V_exit /\ pc # "dispatch")
    => (pc = "exited" /\ status = <<EXIT_SUCCESS>> /\ handler = "none")

C5_Witness ==
  /\ pc = "exited" /\ line = V_exit
  /\ fs # InitFs /\ cwd # <<>> /\ nOpen > 0

\* C6: the working directory changes only in a step that runs do_cd and
\* in which do_cd returns 0; every other step, and a do_cd that returns
\* -1, leaves it as it was.
C6_OnlySuccessfulCdMoves ==
  [][cwd' # cwd
       => (pc = "dispatch" /\ pc' = "prompt" /\ handler' = "cd" /\ ret' = 0)]_vars

C6_Witness ==
  /\ pc = "prompt" /\ handler = "cd" /\ ret = -1
  /\ line = V_cd \o SP \o P_aa /\ IsDir(fs, cwd, N_a)

\* C7: when a mkdir of a path that does not exist is immediately followed
\* by an rmdir of the same path, the file system after the rmdir equals
\* the file system before the mkdir.
C7_MkdirRmdirRoundTrip == prev.stage = 2 => fs = prev.fs

C7_Witness ==
  /\ pc = "prompt" /\ prev.stage = 2 /\ prev.made
  /\ line = V_rmdir \o SP \o prev.tok /\ handler = "rmdir"

\* C8: a command that ends in failure (a handler returned -1, or a
\* non-empty line matched no command) has written exactly one diagnostic
\* line, to stderr, when the loop is back at the prompt.
C8_OneDiagnosticOnStderr ==
  (/\ pc = "prompt"
   /\ ret = -1
   /\ \/ handler \in {"cd", "ls", "cat", "mkdir", "rmdir", "rm", "pwd", "stat"}
      \/ (handler = "invalid" /\ line # <<>>))
    => diag = Err

\* C9: whenever the loop is at the prompt, no descriptor or directory
\* stream opened by an earlier handler is still open.
C9_NothingLeftOpen == pc = "prompt" => nOpen = 0

\* C10: an ls whose directory stream was opened, read to its end without
\* a readdir error and closed without error returns 0, whatever lstat did
\* for the entries.
C10_LsSkipsBadEntries ==
  (/\ pc = "prompt" /\ handler = "ls"
   /\ lsenv.opened /\ ~lsenv.readErr /\ ~lsenv.closeErr)
    => ret = 0

====
